---- MODULE Spec2Model ----
(***************************************************************************)
(* State-machine model of core/inference/src/main/cpp/llama_jni.cpp: the   *)
(* JNI session controller of LlamaCppEngine (load, unload, synchronous and *)
(* streaming generation, tokenize) with its helpers shift_context,         *)
(* decode_batched and is_valid_utf8.                                       *)
(*                                                                         *)
(* Tokens are integers; text is a sequence of bytes (0..255).  The calls   *)
(* into llama.cpp (llama_decode, common_sampler_sample, common_tokenize,   *)
(* llama_memory_seq_rm/add) are the environment: their results are chosen  *)
(* nondeterministically, their effect on the context memory is recorded    *)
(* in kv.  A refused llama_decode leaves the memory as it was; the sampler *)
(* returns a token whenever it is asked.                                   *)
(*                                                                         *)
(* One action is one stretch of a JNI call between two points where its    *)
(* position matters: the entry up to decode_batched, one evaluation of the *)
(* loop of decode_batched, one evaluation of the generation loop (with the *)
(* rest of the function when the loop ends), and the return to the caller. *)
(*                                                                         *)
(* Spec is the session driven through the JNI entry points.  SpecBatch     *)
(* and SpecShift call decode_batched and shift_context directly, on every  *)
(* argument within the bounds.                                             *)
(* SpecTwo lets two threads call the generate entry points of a loaded     *)
(* session at once.                                                        *)
(***************************************************************************)
EXTENDS Integers, Sequences, FiniteSets, TLC

\* ------------------------------------------------------------------ bounds
\* load requests use contextSize in MinCtx..MaxCtx
MinCtx == 6
MaxCtx == 7
\* prompts tokenize to 0..MaxPromptLen tokens
MaxPromptLen == 7
\* maxTokens is drawn from {-NegTokens} \cup 0..MaxTokens
MaxTokens == 3
NegTokens == 5
\* decode_batched harness: token count, batch limit, start position
MaxBatchTokens == 10
MaxBatchLimit == 4
MaxStart == 1
\* shift_context harness: cursor range
MaxPos == 13

\* --------------------------------------------------------- program constants
DefaultContextSize == 4096
BatchSize == 512
Reserve == 4

\* the callers (Java threads) of the JNI entry points
Callers == {1}

VARIABLES
    proc,            \* "running" | "aborted" (uncaught C++ exception, heap corruption)
    g_model,         \* g_model != nullptr
    g_context,       \* g_context != nullptr
    g_batch,         \* [alloc: "none" | "live" | "freed", entries: Seq(BatchEntry)]
    g_sampler,       \* [live, cfg, prev]: prev is the repeat-penalty history
    g_context_size,
    g_batch_size,
    g_chat_msgs,
    g_system_pos,
    g_current_pos,
    g_stop_pos,
    g_cached_chars,
    g_assistant_ss,
    kv,              \* memory of g_context: sequence of cells [pos, tok]
    call             \* per caller: the locals of the JNI call it is in, and its log

session == <<g_model, g_context, g_batch, g_sampler, g_context_size, g_batch_size,
             g_chat_msgs, g_system_pos, g_current_pos, g_stop_pos, g_cached_chars,
             g_assistant_ss, kv>>

vars == <<proc, g_model, g_context, g_batch, g_sampler, g_context_size, g_batch_size,
          g_chat_msgs, g_system_pos, g_current_pos, g_stop_pos, g_cached_chars,
          g_assistant_ss, kv, call>>

\* ------------------------------------------------------------------ helpers
Min(a, b) == IF a < b THEN a ELSE b

\* C integer division: truncation toward zero
CDiv(a, b) == IF a >= 0 THEN a \div b ELSE -((-a) \div b)

Iota(n) == [k \in 1..n |-> k]

RECURSIVE Flatten(_)
Flatten(ss) == IF ss = <<>> THEN <<>> ELSE Head(ss) \o Flatten(Tail(ss))

Last(s) == s[Len(s)]
Front(s) == SubSeq(s, 1, Len(s) - 1)

\* ------------------------------------------------------- environment inputs
\* token sequences common_tokenize can return for a prompt or a text
Prompts == {Iota(n) : n \in {0, 2, MaxPromptLen}}

\* values of the maxTokens argument
MaxTokensArgs == {-NegTokens} \cup 0..MaxTokens

\* sampling parameter sets (temperature, topP, topK, repeatPenalty)
Configs == {"cfgA", "cfgB"}

\* tokens for which llama_vocab_is_eog is true
EogTokens == {2}

\* tokens the sampler can draw that carry text
TextTokens == {10, 11, 12, 13, 14, 16}

Vocab == EogTokens \cup TextTokens

\* common_token_to_piece: the bytes of a token ('A', a 2-byte lead, a
\* continuation byte, the first two bytes of a 3-byte unit, 'A' followed by
\* a 3-byte lead, a NUL byte)
Piece(id) ==
    CASE id = 10 -> <<65>>
      [] id = 11 -> <<195>>
      [] id = 12 -> <<169>>
      [] id = 13 -> <<226, 130>>
      [] id = 14 -> <<65, 226>>
      [] id = 16 -> <<0>>
      [] OTHER   -> <<>>

RECURSIVE Pieces(_)
Pieces(ids) == IF ids = <<>> THEN <<>> ELSE Piece(Head(ids)) \o Pieces(Tail(ids))

\* ------------------------------------------------------------- text helpers
\* std::string::c_str() read as a C string: the bytes before the first NUL
RECURSIVE c_str(_)
c_str(s) ==
    IF s = <<>> \/ Head(s) = 0 THEN <<>> ELSE <<Head(s)>> \o c_str(Tail(s))

\* the byte at 1-based index k of the NUL-terminated buffer of s
ByteAt(s, k) == IF k <= Len(s) THEN s[k] ELSE 0

\* length declared by a lead byte (lines 98-102); 0 when the byte is no lead
LeadLen(b) ==
    IF b \div 128 = 0 THEN 1            \* (b & 0x80) == 0x00
    ELSE IF b \div 32 = 6 THEN 2        \* (b & 0xE0) == 0xC0
    ELSE IF b \div 16 = 14 THEN 3       \* (b & 0xF0) == 0xE0
    ELSE IF b \div 8 = 30 THEN 4        \* (b & 0xF8) == 0xF0
    ELSE 0

\* any byte with the high bit set taken for a continuation byte
IsCont_high_bit(b) == b \div 128 = 1

\* (b & 0xC0) == 0x80
IsCont(b) == b \div 64 = 2

RECURSIVE utf8_scan(_, _)
utf8_scan(s, b) ==
    IF ByteAt(s, b) = 0 THEN TRUE
    ELSE LET n == LeadLen(ByteAt(s, b))
         IN  IF n = 0 THEN FALSE
             ELSE IF \A i \in 1..(n - 1) : IsCont(ByteAt(s, b + i))
                  THEN utf8_scan(s, b + n)
                  ELSE FALSE

is_valid_utf8(s) == utf8_scan(s, 1)

\* lines 277-285: the trim applied to the synchronous output
RECURSIVE PopCont(_)
PopCont(s) == IF s # <<>> /\ IsCont(Last(s)) THEN PopCont(Front(s)) ELSE s

PopLead(s) == IF s # <<>> /\ Last(s) \div 128 = 1 THEN Front(s) ELSE s

TrimOutput(output) ==
    IF ~is_valid_utf8(output) THEN PopLead(PopCont(output)) ELSE output

\* env->NewStringUTF(p): the Java string made from the C string p
NewStringUTF(s) == c_str(s)

\* --------------------------------------------------------- context memory
\* the range of llama_memory_seq_rm taken with its upper end included
seq_rm_inclusive(mem, p0, p1) == SelectSeq(mem, LAMBDA c : ~(p0 <= c.pos /\ c.pos <= p1))

\* llama_memory_seq_rm(mem, 0, p0, p1): drop the cells with p0 <= pos < p1
seq_rm(mem, p0, p1) == SelectSeq(mem, LAMBDA c : ~(p0 <= c.pos /\ c.pos < p1))

\* llama_memory_seq_add(mem, 0, p0, p1, delta): renumber the cells in [p0, p1)
seq_add(mem, p0, p1, delta) ==
    [k \in 1..Len(mem) |->
        IF p0 <= mem[k].pos /\ mem[k].pos < p1
        THEN [mem[k] EXCEPT !.pos = @ + delta]
        ELSE mem[k]]

\* the cells a successful llama_decode of a batch adds
Cells(entries) == [k \in 1..Len(entries) |-> [pos |-> entries[k].pos, tok |-> entries[k].token]]

\* shift_context with the boundary left out of the half that is discarded
shift_context_ignores_boundary(current_pos, system_pos, mem) ==
    LET n_discard == CDiv(current_pos, 2)
        removed   == seq_rm(mem, system_pos, system_pos + n_discard)
        shifted   == seq_add(removed, system_pos + n_discard, current_pos, -n_discard)
    IN  [pos |-> current_pos - n_discard, kv |-> shifted, n_discard |-> n_discard]

\* lines 59-65; returns the new cursor, the new memory and n_discard
shift_context(current_pos, system_pos, mem) ==
    LET n_discard == CDiv(current_pos - system_pos, 2)
        removed   == seq_rm(mem, system_pos, system_pos + n_discard)
        shifted   == seq_add(removed, system_pos + n_discard, current_pos, -n_discard)
    IN  [pos |-> current_pos - n_discard, kv |-> shifted, n_discard |-> n_discard]

\* ------------------------------------------------------------ call records
NoRet == [kind |-> "none", msg |-> "", val |-> <<>>]
VoidRet == [kind |-> "void", msg |-> "", val |-> <<>>]
ErrorString(m) == [kind |-> "error", msg |-> m, val |-> <<>>]
JString(bytes) == [kind |-> "string", msg |-> "", val |-> bytes]
JIntArray(ints) == [kind |-> "ints", msg |-> "", val |-> ints]
IntRet(n) == [kind |-> "int", msg |-> "", val |-> <<n>>]

\* The locals of one JNI call and what it has done so far.
\*   pc         "idle" | "decode" (in decode_batched) | "gen" (generation loop)
\*              | "shift" (about to run shift_context) | "done" | "crashed"
\*   op         the entry point called
\*   prompt, maxTokens, cfg, cb     the arguments of a generation request
\*   tokens, start, logit_last, i   arguments and loop index of decode_batched;
\*              i is also the index of the generation loop
\*   result, cached                 the output accumulators of the two modes
\*   delivered  the strings handed to onToken, in order
\*   sampled    the tokens drawn by the sampler, in order
\*   appended   the tokens whose piece was appended to result / cached
\*   batches    the batches handed to llama_decode, with the answer, whether
\*              the prompt or the generation loop submitted it, whether
\*              shift_context ran before the batch was built, the value of
\*              g_current_pos when that was decided and its value when the
\*              batch was handed over
\*   state      how the call ended
\*   discarded  the positions shift_context discarded during the call
\*   signalled  onToken left an exception pending during a delivery
\*   prevFailed the previous call of this caller ended Failed in the
\*              generation loop
\*   args       the inputs of a direct call of a helper
IdleCall ==
    [pc |-> "idle", op |-> "none", prompt |-> <<>>, maxTokens |-> 0, cfg |-> "none",
     cb |-> TRUE,
     tokens |-> <<>>, start |-> 0, logit_last |-> FALSE, i |-> 0,
     result |-> <<>>, cached |-> <<>>, delivered |-> <<>>,
     sampled |-> <<>>, appended |-> <<>>, batches |-> <<>>,
     state |-> "None", ret |-> NoRet, discarded |-> 0, signalled |-> FALSE,
     prevFailed |-> FALSE,
     args |-> <<>>]

NewCall(old, op) == [old EXCEPT !.op = op]

\* the caller is in no JNI call
AtRest(r) == r.pc = "idle"

\* ------------------------------------------------------ session helpers
NullSampler == [live |-> FALSE, cfg |-> "none", prev |-> <<>>]

\* the sampler reconfigured in place, its history kept
common_sampler_reused(cfg) == [g_sampler EXCEPT !.live = TRUE, !.cfg = cfg]

\* common_sampler_init(model, sparams)
common_sampler_init(cfg) == [live |-> TRUE, cfg |-> cfg, prev |-> <<>>]

\* the model test left out
ModelLoaded_always == TRUE

\* line 213 / 298: the test both generate entry points start with
ModelLoaded == g_model /\ g_context

\* the stop-token test left out
is_eog_never(id) == FALSE

\* line 259 / 340: llama_vocab_is_eog
is_eog(id) == id \in EogTokens

\* the pending exception ignored
Cancels_never(called, threw) == FALSE

\* lines 344-355: the loop is left when onToken was called and left an
\* exception pending
Cancels(called, threw) == called /\ threw

\* line 239 / 319
max_prompt(context_size, maxTokens) == context_size - maxTokens - Reserve

\* lines 240-241 / 320: tokens.resize(max_prompt) throws std::length_error
\* when max_prompt, converted to size_t, exceeds max_size()
ResizeThrows(tokens, mp) == Len(tokens) > mp /\ mp < 0

\* the truncation left out
Truncate_keeps_all(tokens, mp) == tokens

\* lines 240-243 / 320
Truncate(tokens, mp) == IF Len(tokens) > mp THEN SubSeq(tokens, 1, mp) ELSE tokens

\* line 73
ChunkLen(n, i, batch_size) == Min(n - i, batch_size)

\* line 76
DecodeNeedsShift(start, i, cur, context_size) == start + i + cur >= context_size - Reserve

\* line 254 / 335
GenNeedsShift(current_pos, context_size) == current_pos >= context_size - Reserve

\* want_logit with the chunk offset i left out
want_logit_in_chunk(logit_last, i, j, n) == logit_last /\ (j = n - 1)

\* line 81
want_logit(logit_last, i, j, n) == logit_last /\ (i + j = n - 1)

\* the batch with the chunk offset i left out of the positions
BatchEntries_no_offset(tokens, start, i, cur, logit_last) ==
    [k \in 1..cur |->
        [token  |-> tokens[i + k],
         pos    |-> start + (k - 1),
         seq_id |-> 0,
         logits |-> want_logit(logit_last, i, k - 1, Len(tokens))]]

\* lines 80-83: the batch built from tokens[i .. i+cur-1] (0-based)
BatchEntries(tokens, start, i, cur, logit_last) ==
    [k \in 1..cur |->
        [token  |-> tokens[i + k],
         pos    |-> start + i + (k - 1),
         seq_id |-> 0,
         logits |-> want_logit(logit_last, i, k - 1, Len(tokens))]]

\* lines 264-265 / 358-359
TokenBatch(id, current_pos) ==
    <<[token |-> id, pos |-> current_pos, seq_id |-> 0, logits |-> TRUE]>>

MaybeShift(needed) ==
    IF needed THEN shift_context(g_current_pos, g_system_pos, kv)
    ELSE [pos |-> g_current_pos, kv |-> kv, n_discard |-> 0]

\* a failed decode in the loop answered like a failed prompt
Finish_error_on_failure(r, st) ==
    [r EXCEPT !.pc = "done", !.state = st,
              !.ret = IF r.op = "generate"
                      THEN IF st = "Failed"
                           THEN ErrorString("[Error: Failed to process prompt]")
                           ELSE JString(NewStringUTF(TrimOutput(r.result)))
                      ELSE VoidRet]

\* lines 273-287 (synchronous) / the return of nativeGenerateStream
Finish(r, st) ==
    [r EXCEPT !.pc = "done", !.state = st,
              !.ret = IF r.op = "generate"
                      THEN JString(NewStringUTF(TrimOutput(r.result)))
                      ELSE VoidRet]

\* what the caller of decode_batched does with its return code rc
\* (lines 246-249, 322-331; a direct call just keeps the code)
OnDecodeReturn(r, rc) ==
    CASE r.op = "decode_batched" ->
            [r EXCEPT !.pc = "done", !.ret = IntRet(rc),
                      !.state = IF rc = 0 THEN "Completed" ELSE "Failed"]
      [] r.op = "generate" ->
            IF rc # 0
            THEN [r EXCEPT !.pc = "done", !.state = "Failed",
                           !.ret = ErrorString("[Error: Failed to process prompt]")]
            ELSE [r EXCEPT !.pc = "gen", !.i = 0]
      [] OTHER ->
            IF rc # 0 THEN [r EXCEPT !.pc = "done", !.state = "Failed", !.ret = VoidRet]
            ELSE IF ~r.cb
                 THEN [r EXCEPT !.pc = "done", !.state = "NoCallback", !.ret = VoidRet]
                 ELSE [r EXCEPT !.pc = "gen", !.i = 0]

SetsCursor(r, rc) == rc = 0 /\ r.op \in {"generate", "stream"}

\* ------------------------------------------------------------------- Init
Init ==
    /\ proc = "running"
    /\ g_model = FALSE
    /\ g_context = FALSE
    /\ g_batch = [alloc |-> "none", entries |-> <<>>]
    /\ g_sampler = NullSampler
    /\ g_context_size = DefaultContextSize
    /\ g_batch_size = BatchSize
    /\ g_chat_msgs = <<>>
    /\ g_system_pos = 0
    /\ g_current_pos = 0
    /\ g_stop_pos = 0
    /\ g_cached_chars = <<>>
    /\ g_assistant_ss = <<>>
    /\ kv = <<>>
    /\ call = [t \in Callers |-> IdleCall]

\* ---------------------------------------------------------------- actions
\* nativeLoadModel (lines 131-187); outcome: which of the two llama calls fails
nativeLoadModel(t, contextSize, outcome) ==
    /\ proc = "running"
    /\ AtRest(call[t])
    /\ call' = [call EXCEPT ![t] =
                  [NewCall(@, "load") EXCEPT !.pc = "done",
                        !.state = IF outcome = "ok" THEN "Loaded" ELSE "LoadFailed",
                        !.ret = IntRet(IF outcome = "ok" THEN 1 ELSE 0)]]
    /\ CASE outcome = "model_fail" ->
              UNCHANGED <<proc, session>>
         [] outcome = "context_fail" ->
              /\ g_model' = FALSE
              /\ g_context' = FALSE
              /\ g_context_size' = contextSize
              /\ g_batch_size' = BatchSize
              /\ kv' = <<>>
              /\ UNCHANGED <<proc, g_batch, g_sampler, g_chat_msgs, g_system_pos,
                             g_current_pos, g_stop_pos, g_cached_chars, g_assistant_ss>>
         [] OTHER ->
              /\ g_model' = TRUE
              /\ g_context' = TRUE
              /\ g_context_size' = contextSize
              /\ g_batch_size' = BatchSize
              /\ g_batch' = [alloc |-> "live", entries |-> <<>>]
              /\ g_sampler' = common_sampler_init("default")
              /\ g_chat_msgs' = <<>>
              /\ g_system_pos' = 0
              /\ g_current_pos' = 0
              /\ kv' = <<>>
              /\ g_stop_pos' = 0
              /\ g_cached_chars' = <<>>
              /\ g_assistant_ss' = <<>>
              /\ UNCHANGED proc

\* nativeFreeModel (lines 190-204).  llama_batch_free(g_batch) frees the same
\* pointers again when the batch was already freed: the process aborts or
\* goes on, as the allocator decides.
nativeFreeModel(t, survives) ==
    /\ proc = "running"
    /\ AtRest(call[t])
    /\ call' = [call EXCEPT ![t] =
                  [NewCall(@, "unload") EXCEPT !.pc = "done", !.state = "Unloaded",
                                                !.ret = VoidRet]]
    /\ g_chat_msgs' = <<>>
    /\ g_system_pos' = 0
    /\ g_current_pos' = 0
    /\ g_stop_pos' = 0
    /\ g_cached_chars' = <<>>
    /\ g_assistant_ss' = <<>>
    /\ g_sampler' = NullSampler
    /\ g_batch' = [alloc |-> IF g_batch.alloc = "none" THEN "none" ELSE "freed",
                   entries |-> <<>>]
    /\ proc' = IF g_batch.alloc = "freed" /\ ~survives THEN "aborted" ELSE "running"
    /\ g_context' = FALSE
    /\ g_model' = FALSE
    /\ kv' = <<>>
    /\ UNCHANGED <<g_context_size, g_batch_size>>

\* nativeTokenize (lines 366-384); toks: what common_tokenize returns for the text
nativeTokenize(t, toks) ==
    /\ proc = "running"
    /\ AtRest(call[t])
    /\ call' = [call EXCEPT ![t] =
                  IF ~g_context
                  THEN [NewCall(@, "tokenize") EXCEPT !.pc = "done",
                            !.state = "ModelUnavailable", !.ret = JIntArray(<<>>)]
                  ELSE [NewCall(@, "tokenize") EXCEPT !.pc = "done", !.prompt = toks,
                            !.state = "Completed", !.ret = JIntArray(toks)]]
    /\ UNCHANGED <<proc, session>>

\* nativeGenerate / nativeGenerateStream up to the call of decode_batched
\* (lines 213-244 / 298-320).  op is "generate" or "stream"; prompt is the
\* token sequence common_tokenize returns; cb: the callback has onToken.
GenerateCall(t, op, prompt, maxTokens, cfg, cb) ==
    /\ proc = "running"
    /\ AtRest(call[t])
    /\ LET r0 == [NewCall(call[t], op) EXCEPT !.prompt = prompt,
                                               !.maxTokens = maxTokens, !.cfg = cfg,
                                               !.cb = cb]
           mp == max_prompt(g_context_size, maxTokens)
       IN
       IF ~ModelLoaded
       THEN /\ call' = [call EXCEPT ![t] =
                          [r0 EXCEPT !.pc = "done", !.state = "ModelUnavailable",
                                     !.ret = IF op = "generate"
                                             THEN ErrorString("[Error: Model not loaded]")
                                             ELSE VoidRet]]
            /\ UNCHANGED <<proc, session>>
       ELSE /\ g_chat_msgs' = <<>>
            /\ g_system_pos' = 0
            /\ g_current_pos' = 0
            /\ kv' = <<>>
            /\ g_stop_pos' = 0
            /\ g_cached_chars' = <<>>
            /\ g_assistant_ss' = <<>>
            /\ g_sampler' = common_sampler_init(cfg)
            /\ UNCHANGED <<g_model, g_context, g_batch, g_context_size, g_batch_size>>
            /\ IF ResizeThrows(prompt, mp)
               THEN /\ proc' = "aborted"
                    /\ call' = [call EXCEPT ![t] =
                                  [r0 EXCEPT !.pc = "crashed", !.state = "Aborted"]]
               ELSE /\ proc' = proc
                    /\ call' = [call EXCEPT ![t] =
                                  [r0 EXCEPT !.pc = "decode", !.tokens = Truncate(prompt, mp),
                                             !.start = 0, !.logit_last = TRUE, !.i = 0]]

\* One evaluation of the loop of decode_batched (lines 72-90): either the loop
\* ends and the function returns 0 to its caller, or one chunk is built and
\* handed to llama_decode, which answers ok or not.
DecodeChunk(t, ok) ==
    /\ proc = "running"
    /\ call[t].pc = "decode"
    /\ LET r   == call[t]
           n   == Len(r.tokens)
           cur == ChunkLen(n, r.i, g_batch_size)
           sh  == MaybeShift(DecodeNeedsShift(r.start, r.i, cur, g_context_size))
           entries == BatchEntries(r.tokens, r.start, r.i, cur, r.logit_last)
           needed == DecodeNeedsShift(r.start, r.i, cur, g_context_size)
           r1  == [r EXCEPT !.batches = Append(@, [entries |-> entries, ok |-> ok,
                                                      phase |-> "prompt",
                                                      shifted |-> needed,
                                                      cursor |-> g_current_pos,
                                                      at |-> sh.pos]),
                            !.discarded = @ + sh.n_discard]
       IN
       IF ~(r.i < n)
       THEN /\ call' = [call EXCEPT ![t] = OnDecodeReturn(r, 0)]
            /\ g_current_pos' = IF SetsCursor(r, 0) THEN n ELSE g_current_pos
            /\ UNCHANGED <<proc, g_model, g_context, g_batch, g_sampler, g_context_size,
                           g_batch_size, g_chat_msgs, g_system_pos, g_stop_pos,
                           g_cached_chars, g_assistant_ss, kv>>
       ELSE /\ g_batch' = [g_batch EXCEPT !.entries = entries]
            /\ g_current_pos' = sh.pos
            /\ IF ok
               THEN /\ kv' = sh.kv \o Cells(entries)
                    /\ call' = [call EXCEPT ![t] = [r1 EXCEPT !.i = @ + g_batch_size]]
               ELSE /\ kv' = sh.kv
                    /\ call' = [call EXCEPT ![t] = OnDecodeReturn(r1, 1)]
            /\ UNCHANGED <<proc, g_model, g_context, g_sampler, g_context_size,
                           g_batch_size, g_chat_msgs, g_system_pos, g_stop_pos,
                           g_cached_chars, g_assistant_ss>>

\* lines 342-356: push the piece, deliver the buffer when it validates.
\* Returns the record after the push and whether onToken was called.
StreamPush(r, id) ==
    LET buf == r.cached \o Piece(id)
    IN  IF is_valid_utf8(buf)
        THEN [rec |-> [r EXCEPT !.cached = <<>>,
                                !.delivered = Append(@, NewStringUTF(buf))],
              called |-> TRUE]
        ELSE [rec |-> [r EXCEPT !.cached = buf], called |-> FALSE]

\* One evaluation of the generation loop (lines 253-271 / 334-362) and, when
\* the loop ends, the rest of the function.  id: the token the sampler draws;
\* ok: the answer of llama_decode; threw: onToken left an exception pending.
GenStep(t, id, ok, threw) ==
    /\ proc = "running"
    /\ call[t].pc = "gen"
    /\ LET r  == call[t]
           sh == MaybeShift(GenNeedsShift(g_current_pos, g_context_size))
           r1 == [r EXCEPT !.sampled = Append(@, id), !.discarded = @ + sh.n_discard]
           r2 == [r1 EXCEPT !.appended = Append(@, id)]
           pushed0 == IF r.op = "generate"
                      THEN [rec |-> [r2 EXCEPT !.result = @ \o Piece(id)], called |-> FALSE]
                      ELSE StreamPush(r2, id)
           pushed == [pushed0 EXCEPT !.rec.signalled = pushed0.called /\ threw]
           batch == TokenBatch(id, sh.pos)
           r3 == [pushed.rec EXCEPT !.batches =
                     Append(@, [entries |-> batch, ok |-> ok, phase |-> "gen",
                                shifted |-> GenNeedsShift(g_current_pos, g_context_size),
                                cursor |-> g_current_pos, at |-> sh.pos])]
       IN
       IF ~(r.i < r.maxTokens)
       THEN /\ call' = [call EXCEPT ![t] = Finish(r, "Completed")]
            /\ UNCHANGED <<proc, session>>
       ELSE /\ g_sampler' = [g_sampler EXCEPT !.prev = Append(@, id)]
            /\ UNCHANGED <<proc, g_model, g_context, g_context_size, g_batch_size,
                           g_chat_msgs, g_system_pos, g_stop_pos, g_cached_chars,
                           g_assistant_ss>>
            /\ IF is_eog(id)
               THEN /\ call' = [call EXCEPT ![t] = Finish(r1, "Completed")]
                    /\ g_current_pos' = sh.pos
                    /\ kv' = sh.kv
                    /\ UNCHANGED g_batch
               ELSE IF Cancels(pushed.called, threw)
               THEN /\ call' = [call EXCEPT ![t] = Finish(pushed.rec, "Cancelled")]
                    /\ g_current_pos' = sh.pos
                    /\ kv' = sh.kv
                    /\ UNCHANGED g_batch
               ELSE /\ g_batch' = [g_batch EXCEPT !.entries = batch]
                    /\ IF ok
                       THEN /\ kv' = sh.kv \o Cells(batch)
                            /\ g_current_pos' = sh.pos + 1
                            /\ call' = [call EXCEPT ![t] = [r3 EXCEPT !.i = @ + 1]]
                       ELSE /\ kv' = sh.kv
                            /\ g_current_pos' = sh.pos
                            /\ call' = [call EXCEPT ![t] = Finish(r3, "Failed")]

\* The JNI call returns to its caller: its locals are gone, the caller holds
\* the result.
Return(t) ==
    /\ proc = "running"
    /\ call[t].pc = "done"
    /\ call' = [call EXCEPT ![t] =
                  [IdleCall EXCEPT !.prevFailed =
                        (call[t].state = "Failed" /\ call[t].sampled # <<>>)]]
    /\ UNCHANGED <<proc, session>>

\* ------------------------------------------------------------------- Next
Next ==
    \E t \in Callers :
        \/ \E c \in MinCtx..MaxCtx, o \in {"ok", "model_fail", "context_fail"} :
              nativeLoadModel(t, c, o)
        \/ \E s \in BOOLEAN : nativeFreeModel(t, s)
        \/ \E toks \in Prompts : nativeTokenize(t, toks)
        \/ \E p \in Prompts, m \in MaxTokensArgs, cfg \in Configs :
              GenerateCall(t, "generate", p, m, cfg, TRUE)
        \/ \E p \in Prompts, m \in MaxTokensArgs, cfg \in Configs, cb \in BOOLEAN :
              GenerateCall(t, "stream", p, m, cfg, cb)
        \/ \E ok \in BOOLEAN : DecodeChunk(t, ok)
        \/ \E id \in Vocab, ok \in BOOLEAN, threw \in BOOLEAN : GenStep(t, id, ok, threw)
        \/ Return(t)

Spec == Init /\ [][Next]_vars

\* ------------------------------------------- direct calls of the helpers
\* A loaded session with the given window, as the helpers find it.
LoadedSession(context_size, batch_size, current_pos, system_pos) ==
    /\ proc = "running"
    /\ g_model = TRUE
    /\ g_context = TRUE
    /\ g_batch = [alloc |-> "live", entries |-> <<>>]
    /\ g_sampler = common_sampler_init("default")
    /\ g_context_size = context_size
    /\ g_batch_size = batch_size
    /\ g_chat_msgs = <<>>
    /\ g_system_pos = system_pos
    /\ g_current_pos = current_pos
    /\ g_stop_pos = 0
    /\ g_cached_chars = <<>>
    /\ g_assistant_ss = <<>>
    /\ kv = [k \in 1..current_pos |-> [pos |-> k - 1, tok |-> k]]

\* decode_batched(ctx, batch, tokens, start, logit_last) called on a session
\* whose cursor is start, for every batch limit
InitBatch ==
    \E n \in 0..MaxBatchTokens, b \in 1..MaxBatchLimit, st \in 0..MaxStart,
       ll \in BOOLEAN, c \in {MaxBatchTokens - 2, MaxBatchTokens + 6} :
        /\ LoadedSession(c, b, st, 0)
        /\ call = [t \in Callers |->
                     [IdleCall EXCEPT !.pc = "decode", !.op = "decode_batched",
                                      !.tokens = Iota(n), !.start = st,
                                      !.logit_last = ll, !.args = <<n, b, st>>]]

NextBatch == \E t \in Callers, ok \in BOOLEAN : DecodeChunk(t, ok)

SpecBatch == InitBatch /\ [][NextBatch]_vars

\* shift_context() called with cursor C and boundary S, the memory holding
\* the positions [0, C)
InitShift ==
    \E c \in 0..MaxPos :
      \E sy \in 0..c :
        /\ LoadedSession(DefaultContextSize, BatchSize, c, sy)
        /\ call = [t \in Callers |->
                     [IdleCall EXCEPT !.pc = "shift", !.op = "shift_context",
                                      !.args = <<c, sy>>]]

ShiftCall(t) ==
    /\ proc = "running"
    /\ call[t].pc = "shift"
    /\ LET sh == shift_context(g_current_pos, g_system_pos, kv)
       IN  /\ g_current_pos' = sh.pos
           /\ kv' = sh.kv
           /\ call' = [call EXCEPT ![t] =
                         [@ EXCEPT !.pc = "done", !.state = "Completed",
                                   !.discarded = sh.n_discard, !.ret = VoidRet]]
    /\ UNCHANGED <<proc, g_model, g_context, g_batch, g_sampler, g_context_size,
                   g_batch_size, g_chat_msgs, g_system_pos, g_stop_pos,
                   g_cached_chars, g_assistant_ss>>

NextShift == \E t \in Callers : ShiftCall(t)

SpecShift == InitShift /\ [][NextShift]_vars

\* ------------------------------------------- two threads calling generate
\* The JNI entry points take no lock and the session is a set of globals
\* (lines 23-40): two Java threads can be inside nativeGenerate /
\* nativeGenerateStream at once.  SpecTwo starts from a loaded session and lets
\* two callers run their calls step by step in any order.  The unsynchronized
\* accesses are a data race: besides the interleavings of whole steps the
\* process may abort while both calls are running.
TwoCallers == {1, 2}

\* between the reset and the end of a generation request
InFlight(r) == r.op \in {"generate", "stream"} /\ r.pc \in {"decode", "gen"}

InitTwo ==
    /\ LoadedSession(MinCtx, BatchSize, 0, 0)
    /\ call = [t \in TwoCallers |-> IdleCall]

DataRace(t, u) ==
    /\ proc = "running"
    /\ t # u
    /\ InFlight(call[t])
    /\ InFlight(call[u])
    /\ proc' = "aborted"
    /\ UNCHANGED <<session, call>>

NextTwo ==
    \E t \in TwoCallers :
        \/ \E op \in {"generate", "stream"}, cfg \in Configs :
              GenerateCall(t, op, Iota(2), 1, cfg, TRUE)
        \/ \E ok \in BOOLEAN : DecodeChunk(t, ok)
        \/ \E id \in {2, 10}, ok \in BOOLEAN, threw \in BOOLEAN : GenStep(t, id, ok, threw)
        \/ Return(t)
        \/ \E u \in TwoCallers : DataRace(t, u)

SpecTwo == InitTwo /\ [][NextTwo]_vars

\* ================================================================ claims
GenOps == {"generate", "stream"}

\* no JNI call is in progress
NoRequestInProgress == \A t \in Callers : call[t].pc \in {"idle", "done"}

\* C1: whenever no request is in progress, systemBoundary <= cursor <= capacity,
\* after any sequence of load, generate, stream, tokenize and unload requests
\* with any prompt length and any maxTokens.
C1_CursorWithinWindow ==
    NoRequestInProgress =>
        (g_system_pos <= g_current_pos /\ g_current_pos <= g_context_size)

\* C2: one shift_context with cursor C and boundary S <= C discards exactly
\* floor((C-S)/2) positions, leaves the cursor at C - floor((C-S)/2) >= S,
\* leaves the boundary at S, and changes nothing when C = S; C = 12, S = 2
\* gives discard 5 and cursor 7.
C2_ShiftDiscardsHalf ==
    \A t \in Callers :
        (call[t].op = "shift_context" /\ call[t].pc = "done") =>
            LET C == call[t].args[1]
                S == call[t].args[2]
                d == C - Len(kv)
            IN  /\ 2 * d <= C - S
                /\ C - S <= 2 * d + 1
                /\ call[t].discarded = d
                /\ g_current_pos = C - d
                /\ g_current_pos >= S
                /\ g_system_pos = S
                /\ (C = S => (d = 0 /\ g_current_pos = C))
                /\ ((C = 12 /\ S = 2) => (d = 5 /\ g_current_pos = 7))

C2_Witness ==
    \E t \in Callers :
        /\ call[t].op = "shift_context"
        /\ call[t].pc = "done"
        /\ call[t].args = <<12, 2>>
        /\ call[t].discarded = 5
        /\ g_current_pos = 7
        /\ g_system_pos = 2
        /\ Len(kv) = 7

\* the entries of all batches a call handed to llama_decode, in order
RECURSIVE AllEntries(_)
AllEntries(bs) == IF bs = <<>> THEN <<>> ELSE Head(bs).entries \o AllEntries(Tail(bs))

\* ceil(n / b): the least m with m * b >= n
CeilDiv(n, b) == CHOOSE m \in 0..n : m * b >= n /\ \A m2 \in 0..n : m2 * b >= n => m <= m2

\* number of entries that request output
OutputCount(es) == Cardinality({g \in 1..Len(es) : es[g].logits})

\* C3 as stated: decode_batched submits exactly ceil(n/B) batches, each of
\* length 1..B, whose entries in order carry the original tokens with
\* positions start, start+1, ..., start+n-1 and sequence id 0.
C3_SubmitsAllBatches ==
    \A t \in Callers :
        (call[t].op = "decode_batched" /\ call[t].pc = "done") =>
            LET r   == call[t]
                n   == Len(r.tokens)
                all == AllEntries(r.batches)
            IN  /\ Len(r.batches) = CeilDiv(n, g_batch_size)
                /\ \A k \in 1..Len(r.batches) :
                      Len(r.batches[k].entries) \in 1..g_batch_size
                /\ Len(all) = n
                /\ \A g \in 1..Len(all) :
                      /\ all[g].token = r.tokens[g]
                      /\ all[g].pos = r.start + g - 1
                      /\ all[g].seq_id = 0

\* C3 amended: decode_batched submits the chunks in order, each of length
\* 1..B and all but the last submitted one of length B, the entries carrying
\* the original tokens in order with positions start, start+1, ... and
\* sequence id 0; it submits all ceil(n/B) batches (n entries) when no
\* submission fails and stops after the first failing batch otherwise.
C3_SubmitsChunksInOrder ==
    \A t \in Callers :
        call[t].op = "decode_batched" =>
            LET r   == call[t]
                n   == Len(r.tokens)
                m   == Len(r.batches)
                all == AllEntries(r.batches)
            IN  /\ \A k \in 1..m : Len(r.batches[k].entries) \in 1..g_batch_size
                /\ \A k \in 1..(m - 1) :
                      Len(r.batches[k].entries) = g_batch_size /\ r.batches[k].ok
                /\ Len(all) <= n
                /\ \A g \in 1..Len(all) :
                      /\ all[g].token = r.tokens[g]
                      /\ all[g].pos = r.start + g - 1
                      /\ all[g].seq_id = 0
                /\ (r.pc = "done" /\ r.state = "Completed") =>
                      (m = CeilDiv(n, g_batch_size) /\ Len(all) = n
                       /\ \A k \in 1..m : r.batches[k].ok)
                /\ (r.pc = "done" /\ r.state = "Failed") =>
                      (m >= 1 /\ m <= CeilDiv(n, g_batch_size) /\ ~r.batches[m].ok)

C3_Witness ==
    \E t \in Callers :
        /\ call[t].op = "decode_batched"
        /\ call[t].pc = "done"
        /\ call[t].state = "Completed"
        /\ call[t].args = <<10, 4, 1>>
        /\ Len(call[t].batches) = 3
        /\ Len(call[t].batches[1].entries) = 4
        /\ Len(call[t].batches[2].entries) = 4
        /\ Len(call[t].batches[3].entries) = 2
        /\ call[t].batches[3].entries[2].token = 10
        /\ call[t].batches[3].entries[2].pos = 10

\* C4 as stated: with output requested exactly one entry over all submitted
\* chunks has wantsOutput, the last entry of the last chunk; with output not
\* requested no entry has it.
C4_ExactlyOneOutputEntry ==
    \A t \in Callers :
        (call[t].op = "decode_batched" /\ call[t].pc = "done") =>
            LET r   == call[t]
                all == AllEntries(r.batches)
            IN  IF r.logit_last
                THEN /\ OutputCount(all) = 1
                     /\ r.batches # <<>>
                     /\ Last(Last(r.batches).entries).logits
                ELSE OutputCount(all) = 0

\* C4 amended: an entry has wantsOutput exactly when output is requested and
\* it is the entry of the last token of the sequence; so at most one entry
\* has it, none when output is not requested, and exactly one, the last entry
\* of the last chunk, when output is requested, the prompt is not empty and
\* no submission fails.
C4_OnlyFinalEntryWantsOutput ==
    \A t \in Callers :
        call[t].op = "decode_batched" =>
            LET r   == call[t]
                n   == Len(r.tokens)
                all == AllEntries(r.batches)
            IN  /\ \A g \in 1..Len(all) : all[g].logits <=> (r.logit_last /\ g = n)
                /\ OutputCount(all) <= 1
                /\ ~r.logit_last => OutputCount(all) = 0
                /\ (r.pc = "done" /\ r.state = "Completed" /\ r.logit_last /\ n >= 1) =>
                      (OutputCount(all) = 1 /\ Last(Last(r.batches).entries).logits)

C4_Witness ==
    \E t \in Callers :
        /\ call[t].op = "decode_batched"
        /\ call[t].pc = "done"
        /\ call[t].state = "Completed"
        /\ call[t].logit_last
        /\ call[t].args = <<10, 4, 0>>
        /\ g_context_size = 16
        /\ Len(call[t].batches) = 3
        /\ Len(call[t].batches[1].entries) = 4
        /\ Len(call[t].batches[2].entries) = 4
        /\ Len(call[t].batches[3].entries) = 2
        /\ OutputCount(AllEntries(call[t].batches)) = 1
        /\ call[t].batches[3].entries[2].logits
        /\ call[t].batches[3].entries[2].pos = 9

\* a generation request that got past the model test
Started(r) == r.op \in GenOps /\ r.pc # "idle" /\ r.state # "ModelUnavailable"

\* the first k elements of s, for 0 <= k
Prefix(s, k) == [g \in 1..k |-> s[g]]

\* C5 as stated: for every prompt and every maxTokens the sequence submitted
\* to the model is the original one when its length is at most
\* capacity - maxTokens - 4 and its first capacity - maxTokens - 4 tokens
\* otherwise; its length never exceeds capacity - maxTokens - 4.
C5_PromptTruncatedToBudget ==
    \A t \in Callers :
        Started(call[t]) =>
            LET r  == call[t]
                mp == g_context_size - r.maxTokens - 4
            IN  /\ r.pc # "crashed"
                /\ r.tokens = IF Len(r.prompt) <= mp THEN r.prompt ELSE Prefix(r.prompt, mp)
                /\ Len(r.tokens) <= mp

\* what holds of C5 for the calls that do not abort in tokens.resize
C5_TruncationUnlessAborted ==
    \A t \in Callers :
        (Started(call[t]) /\ call[t].pc # "crashed") =>
            LET r  == call[t]
                mp == g_context_size - r.maxTokens - 4
            IN  /\ mp >= 0
                /\ r.tokens = IF Len(r.prompt) <= mp THEN r.prompt ELSE Prefix(r.prompt, mp)
                /\ Len(r.tokens) <= mp

\* the batches the generation loop handed to llama_decode
GenBatches(r) == SelectSeq(r.batches, LAMBDA b : b.phase = "gen")

HasNul(bytes) == \E g \in 1..Len(bytes) : bytes[g] = 0

\* C6: when the sampler draws a stop token at step k <= maxTokens the request
\* ends Completed, the result holds exactly the fragments of the first k-1
\* generated tokens, the stop token is never submitted as a batch, and the
\* cursor is the prompt length plus k-1 (less what eviction discarded).
C6_StopTokenEndsRequest ==
    \A t \in Callers :
        LET r == call[t]
            k == Len(r.sampled)
            gen == GenBatches(r)
        IN  (r.op \in GenOps /\ k >= 1 /\ r.sampled[k] \in EogTokens) =>
                /\ r.pc = "done"
                /\ r.state = "Completed"
                /\ k <= r.maxTokens
                /\ \A g \in 1..(k - 1) : r.sampled[g] \notin EogTokens
                /\ r.appended = Prefix(r.sampled, k - 1)
                /\ r.op = "generate" => r.result = Pieces(Prefix(r.sampled, k - 1))
                /\ (r.op = "stream" /\ ~HasNul(Pieces(r.appended))) =>
                      Flatten(r.delivered) \o r.cached = Pieces(Prefix(r.sampled, k - 1))
                /\ Len(gen) = k - 1
                /\ \A g \in 1..(k - 1) :
                      /\ Len(gen[g].entries) = 1
                      /\ gen[g].entries[1].token = r.sampled[g]
                      /\ gen[g].ok
                /\ g_current_pos + r.discarded = Len(r.tokens) + (k - 1)

C6_Witness ==
    \E t \in Callers :
        /\ call[t].op = "generate"
        /\ call[t].pc = "done"
        /\ call[t].state = "Completed"
        /\ call[t].maxTokens = 3
        /\ call[t].sampled = <<10, 10, 2>>
        /\ call[t].result = <<65, 65>>
        /\ call[t].ret = JString(<<65, 65>>)
        /\ Len(GenBatches(call[t])) = 2
        /\ g_current_pos = Len(call[t].tokens) + 2

\* C7: in streaming mode, once the consumer signals cancellation during the
\* delivery of a chunk the request ends Cancelled with no batch submitted, no
\* token sampled and no chunk delivered after that point; the synchronous
\* mode never reaches Cancelled.
C7_CancelStopsStream ==
    \A t \in Callers :
        LET r == call[t]
            k == Len(r.sampled)
            gen == GenBatches(r)
        IN  /\ r.signalled =>
                /\ r.op = "stream"
                /\ r.pc = "done"
                /\ r.state = "Cancelled"
                /\ k >= 1
                /\ Len(r.appended) = k
                /\ Len(gen) = k - 1
                /\ \A g \in 1..(k - 1) : gen[g].entries[1].token = r.sampled[g]
                /\ r.delivered # <<>>
                /\ Len(r.delivered) <= k
                /\ r.cached = <<>>
                /\ g_current_pos + r.discarded = Len(r.tokens) + (k - 1)
                /\ Len(kv) = g_current_pos
            /\ r.state = "Cancelled" => (r.signalled /\ r.op = "stream")
            /\ r.op = "generate" => r.state # "Cancelled"

C7_Witness ==
    \E t \in Callers :
        /\ call[t].op = "stream"
        /\ call[t].pc = "done"
        /\ call[t].state = "Cancelled"
        /\ call[t].signalled
        /\ call[t].maxTokens = 3
        /\ call[t].sampled = <<10, 10>>
        /\ call[t].delivered = << <<65>>, <<65>> >>
        /\ Len(GenBatches(call[t])) = 1

\* a batch the generation loop submitted was refused
GenDecodeFailed(r) == \E g \in 1..Len(r.batches) : r.batches[g].phase = "gen" /\ ~r.batches[g].ok

\* the session as reset_chat_state, reset_gen_state and a fresh sampler leave it
SessionReset ==
    /\ g_current_pos = 0
    /\ g_system_pos = 0
    /\ g_chat_msgs = <<>>
    /\ kv = <<>>
    /\ g_stop_pos = 0
    /\ g_cached_chars = <<>>
    /\ g_assistant_ss = <<>>
    /\ g_sampler.live
    /\ g_sampler.prev = <<>>

\* C8: when a batch submission fails in the generation loop the loop stops at
\* once (no further sample, batch or cursor advance), the output produced so
\* far is returned as the final result, and only that request is affected:
\* the next generation request starts from a fully reset session.
C8_DecodeFailureStopsLoop ==
    \A t \in Callers :
        LET r == call[t]
            k == Len(r.sampled)
            gen == GenBatches(r)
        IN  /\ (r.op \in GenOps /\ GenDecodeFailed(r)) =>
                /\ r.pc = "done"
                /\ r.state = "Failed"
                /\ ~Last(r.batches).ok
                /\ \A g \in 1..(Len(r.batches) - 1) : r.batches[g].ok
                /\ Len(gen) = k
                /\ Len(r.appended) = k
                /\ g_current_pos + r.discarded = Len(r.tokens) + (k - 1)
                /\ Len(kv) = g_current_pos
                /\ g_sampler.prev = r.sampled
                /\ r.op = "generate" =>
                      r.ret = JString(c_str(TrimOutput(Pieces(r.sampled))))
                /\ r.op = "stream" => r.ret = VoidRet
            /\ (r.op \in GenOps /\ r.prevFailed /\ r.pc = "decode" /\ r.batches = <<>>) =>
                   (SessionReset /\ r.result = <<>> /\ r.cached = <<>>
                    /\ r.delivered = <<>> /\ r.sampled = <<>>)

\* the request after one that failed in the generation loop completes
C8_Witness ==
    \E t \in Callers :
        /\ call[t].op = "generate"
        /\ call[t].prevFailed
        /\ call[t].pc = "done"
        /\ call[t].state = "Completed"
        /\ call[t].sampled = <<10, 10, 2>>
        /\ call[t].ret = JString(<<65, 65>>)

\* C9: a generate, stream or tokenize request made while no model is loaded
\* ends at once as ModelUnavailable and changes no session variable, and
\* tokenize changes no session variable when a model is loaded either.
C9_UnavailableChangesNothing ==
    [][\A t \in Callers :
          (call[t].pc = "idle" /\ call'[t].op \in {"generate", "stream", "tokenize"}) =>
              /\ ~(g_model /\ g_context) =>
                    /\ call'[t].pc = "done"
                    /\ call'[t].state = "ModelUnavailable"
                    /\ call'[t].ret.kind \in {"error", "void", "ints"}
                    /\ call'[t].ret.val = <<>>
                    /\ call'[t].batches = <<>>
                    /\ call'[t].sampled = <<>>
                    /\ call'[t].delivered = <<>>
                    /\ session' = session
                    /\ proc' = proc
              /\ call'[t].op = "tokenize" =>
                    /\ call'[t].pc = "done"
                    /\ session' = session
                    /\ proc' = proc
              /\ (g_model /\ g_context) => call'[t].state # "ModelUnavailable"
      ]_vars

\* a request refused for want of a model while the session still holds the
\* cursor of an earlier request (the reload in between failed)
C9_Witness ==
    \E t \in Callers :
        /\ call[t].op = "generate"
        /\ call[t].pc = "done"
        /\ call[t].state = "ModelUnavailable"
        /\ call[t].ret = ErrorString("[Error: Model not loaded]")
        /\ ~g_model
        /\ g_current_pos > 0
        /\ g_sampler.prev # <<>>

\* a byte sequence made of complete multi-byte units only: every byte is an
\* ASCII byte, a lead byte followed by exactly the continuation bytes it
\* declares, or a continuation byte that belongs to such a unit
DeclaredLen(b) ==
    IF b \in 192..223 THEN 2 ELSE IF b \in 224..239 THEN 3 ELSE IF b \in 240..247 THEN 4 ELSE 0

WellFormed(s) ==
    \A g \in 1..Len(s) :
        \/ s[g] \in 0..127
        \/ /\ DeclaredLen(s[g]) >= 2
           /\ g + DeclaredLen(s[g]) - 1 <= Len(s)
           /\ \A h \in (g + 1)..(g + DeclaredLen(s[g]) - 1) : s[h] \in 128..191
           /\ (g + DeclaredLen(s[g]) <= Len(s)) => s[g + DeclaredLen(s[g])] \notin 128..191
        \/ /\ s[g] \in 128..191
           /\ \E d \in 1..3 :
                 /\ g - d >= 1
                 /\ DeclaredLen(s[g - d]) > d
                 /\ \A h \in (g - d + 1)..(g - 1) : s[h] \in 128..191

\* C10: every chunk delivered to the streaming consumer is a sequence of
\* complete multi-byte units; bytes that do not yet form complete units stay
\* in the buffer across generation steps and are never delivered, and what
\* is left in the buffer when generation ends is dropped.
C10_OnlyCompleteUnitsDelivered ==
    \A t \in Callers :
        LET r == call[t]
        IN  r.op = "stream" =>
                /\ \A g \in 1..Len(r.delivered) : WellFormed(r.delivered[g])
                /\ r.cached # <<>> => ~WellFormed(c_str(r.cached))
                /\ Len(r.delivered) <= Len(r.appended)
                /\ ~HasNul(Pieces(r.appended)) =>
                      Flatten(r.delivered) \o r.cached = Pieces(r.appended)
                /\ r.ret.val = <<>>

\* a 2-byte unit split over two steps is delivered whole, and the lone lead
\* byte left in the buffer when the budget ends is dropped
C10_Witness ==
    \E t \in Callers :
        /\ call[t].op = "stream"
        /\ call[t].pc = "done"
        /\ call[t].state = "Completed"
        /\ call[t].sampled = <<11, 12, 11>>
        /\ call[t].delivered = << <<195, 169>> >>
        /\ call[t].cached = <<195>>
        /\ call[t].ret = VoidRet

\* C11 as stated: for every valid text string and every way of splitting it
\* into fragments, pushing the fragments one by one and draining after each
\* push delivers chunks whose concatenation is the original string.
C11_RoundTrip ==
    \A t \in Callers :
        LET r == call[t]
        IN  (r.op = "stream" /\ WellFormed(Pieces(r.appended))) =>
                Flatten(r.delivered) = Pieces(r.appended)

\* what holds of C11 for the strings that hold no NUL byte
C11_RoundTripWithoutNul ==
    \A t \in Callers :
        LET r == call[t]
        IN  (r.op = "stream" /\ WellFormed(Pieces(r.appended))
               /\ ~HasNul(Pieces(r.appended))) =>
                (Flatten(r.delivered) = Pieces(r.appended) /\ r.cached = <<>>)

\* a 3-byte unit split after its second byte, behind an ASCII byte, comes
\* back whole
C11_SplitUnitReassembled ==
    \E t \in Callers :
        /\ call[t].op = "stream"
        /\ call[t].appended = <<10, 13, 12>>
        /\ call[t].delivered = << <<65>>, <<226, 130, 169>> >>

\* C12: in every generation request the session reset precedes the first
\* batch submission: when the first prompt batch is submitted the cursor and
\* the boundary are 0, the history is empty, the context memory is cleared,
\* the generation buffers are empty and the sampler is a fresh instance built
\* from the request's parameters with an empty history; the memory then holds
\* the cells of that batch and nothing else.
C12_ResetBeforeFirstBatch ==
    [][\A t \in Callers :
          LET r  == call[t]
              r2 == call'[t]
          IN  (r.op \in GenOps /\ r.batches = <<>> /\ r2.batches # <<>>
                 /\ r2.batches[1].phase = "prompt") =>
                  /\ SessionReset
                  /\ g_sampler.cfg = r.cfg
                  /\ r.result = <<>>
                  /\ r.cached = <<>>
                  /\ r.delivered = <<>>
                  /\ r.sampled = <<>>
                  /\ r2.discarded = 0
                  /\ r2.batches[1].entries[1].pos = 0
                  /\ g_sampler' = g_sampler
                  /\ kv' = IF r2.batches[1].ok THEN Cells(r2.batches[1].entries) ELSE <<>>
      ]_vars

\* the first prompt batch of the request that follows one which failed in
\* its generation loop (cursor, memory and sampler history then non-empty)
C12_Witness ==
    \E t \in Callers :
        /\ call[t].op = "stream"
        /\ call[t].prevFailed
        /\ call[t].pc = "decode"
        /\ Len(call[t].batches) = 1
        /\ call[t].batches[1].phase = "prompt"
        /\ call[t].batches[1].ok
        /\ Len(call[t].batches[1].entries) = 2
        /\ kv = Cells(call[t].batches[1].entries)
        /\ g_sampler = common_sampler_init(call[t].cfg)

\* the token budget of a request (a negative maxTokens leaves no budget)
Budget(r) == IF r.maxTokens > 0 THEN r.maxTokens ELSE 0

\* no stop token drawn, no batch refused, no cancellation signalled
Undisturbed(r) ==
    /\ \A g \in 1..Len(r.sampled) : r.sampled[g] \notin EogTokens
    /\ \A g \in 1..Len(r.batches) : r.batches[g].ok
    /\ ~r.signalled

\* C13 as stated: every generation request started with a model loaded ends
\* in exactly one of Completed, Cancelled, Failed, after sampling at most
\* maxTokens tokens and submitting at most maxTokens single-token batches,
\* and ends Completed after exactly maxTokens generated tokens when no stop
\* token, decode failure or cancellation occurs.
C13_EndsWithinBudget ==
    \A t \in Callers :
        LET r == call[t]
        IN  Started(r) =>
                /\ r.pc # "crashed"
                /\ Len(r.sampled) <= Budget(r)
                /\ Len(GenBatches(r)) <= Budget(r)
                /\ \A g \in 1..Len(GenBatches(r)) : Len(GenBatches(r)[g].entries) = 1
                /\ r.pc = "done" =>
                      /\ r.state \in {"Completed", "Cancelled", "Failed"}
                      /\ Undisturbed(r) =>
                            (r.state = "Completed" /\ Len(r.sampled) = Budget(r)
                             /\ Len(GenBatches(r)) = Budget(r))

\* what holds of C13 for the requests that do not abort in tokens.resize and
\* whose callback has onToken
C13_BudgetUnlessAborted ==
    \A t \in Callers :
        LET r == call[t]
        IN  (Started(r) /\ r.pc # "crashed" /\ r.cb) =>
                /\ Len(r.sampled) <= Budget(r)
                /\ Len(GenBatches(r)) <= Len(r.sampled)
                /\ r.pc = "done" =>
                      /\ r.state \in {"Completed", "Cancelled", "Failed"}
                      /\ Undisturbed(r) =>
                            (r.state = "Completed" /\ Len(r.sampled) = Budget(r)
                             /\ Len(GenBatches(r)) = Budget(r))

\* every step of a request either ends it, passes from the prompt to the
\* generation loop, or moves a loop index towards its limit
C13_EveryStepAdvances ==
    [][\A t \in Callers :
          LET r  == call[t]
              r2 == call'[t]
          IN  (r.op \in GenOps /\ r.pc \in {"decode", "gen"} /\ r2 # r) =>
                  \/ r2.pc = "done"
                  \/ r.pc = "decode" /\ r2.pc = "gen"
                  \/ /\ r2.pc = r.pc
                     /\ r2.i > r.i
                     /\ r.i < (IF r.pc = "decode" THEN Len(r.tokens) ELSE r.maxTokens)
      ]_vars

\* C14 as stated: at most one generation request is in flight at a time: with
\* two callers no interleaving has both between their reset and their
\* terminal state at once, and no request observes a cursor, sampler or
\* context memory modified by another request.
C14_AtMostOneInFlight ==
    /\ Cardinality({t \in DOMAIN call : InFlight(call[t])}) <= 1
    /\ \A t \in DOMAIN call :
          LET r == call[t]
          IN  (r.op \in GenOps /\ r.pc = "gen") =>
                  /\ g_sampler.cfg = r.cfg
                  /\ g_sampler.prev = r.sampled
                  /\ g_current_pos = Len(r.tokens) + Len(GenBatches(r))
                  /\ kv = Cells(AllEntries(r.batches))

\* a request in its generation loop whose next token goes to the position
\* the other request's reset left in the cursor
C14_ForeignCursorObserved ==
    \E t \in DOMAIN call, u \in DOMAIN call :
        /\ t # u
        /\ call[t].pc = "done"
        /\ call[t].state = "Completed"
        /\ InFlight(call[u])
        /\ Len(call[t].batches) = 2
        /\ call[t].batches[2].phase = "gen"
        /\ call[t].batches[2].entries[1].pos = 0

\* C15 as stated: before every batch submission (a prompt chunk of `pending`
\* entries, a generation batch with pending = 1) eviction is triggered if and
\* only if cursor + pending >= capacity - 4, cursor being the session's
\* position cursor at that moment.
C15_EvictsIffCursorPlusPending ==
    \A t \in Callers :
        LET r == call[t]
        IN  r.op \in GenOps =>
                \A g \in 1..Len(r.batches) :
                    r.batches[g].shifted <=>
                        (r.batches[g].cursor + Len(r.batches[g].entries)
                            >= g_context_size - 4)

\* the number of entries in the batches before the g-th
EntriesBefore(bs, g) == Len(AllEntries(SubSeq(bs, 1, g - 1)))

\* the tests the code makes: for a prompt chunk the position after the
\* chunk's last entry (start + i + cur, whatever the cursor is) against
\* capacity - 4; for a generation batch the cursor itself against capacity - 4
C15_TestsOfTheCode ==
    \A t \in DOMAIN call :
        LET r == call[t]
        IN  \A g \in 1..Len(r.batches) :
                LET b == r.batches[g]
                IN  IF b.phase = "prompt"
                    THEN b.shifted <=>
                            (r.start + EntriesBefore(r.batches, g) + Len(b.entries)
                                >= g_context_size - 4)
                    ELSE b.shifted <=> (b.cursor >= g_context_size - 4)

\* a generation batch submitted at cursor = capacity - 5 with no eviction
C15_NoEvictionOneBelowThreshold ==
    \E t \in Callers :
        /\ call[t].op = "generate"
        /\ Len(call[t].batches) = 2
        /\ call[t].batches[2].phase = "gen"
        /\ call[t].batches[2].cursor = g_context_size - 5
        /\ ~call[t].batches[2].shifted

\* C16: for a memory whose occupied positions are exactly [0, C) and a
\* boundary S <= C, eviction removes only the positions [S, S+discard),
\* leaves every position below S and its content untouched, and renumbers
\* the rest so that the occupied positions are exactly [0, C - discard), in
\* the original order, with no gap and no duplicate.  (The cell that was at
\* position p holds the content p + 1.)
C16_EvictionKeepsMemoryContiguous ==
    \A t \in Callers :
        (call[t].op = "shift_context" /\ call[t].pc = "done") =>
            LET C == call[t].args[1]
                S == call[t].args[2]
                d == call[t].discarded
            IN  /\ Len(kv) = C - d
                /\ Len(kv) = g_current_pos
                /\ \A k \in 1..Len(kv) : kv[k].pos = k - 1
                /\ \A k \in 1..S : kv[k].tok = k
                /\ \A k \in (S + 1)..Len(kv) : kv[k].tok = k + d
                /\ \A p \in 0..(C - 1) :
                      (\E k \in 1..Len(kv) : kv[k].tok = p + 1) <=> ~(S <= p /\ p < S + d)

\* cursor 12, boundary 2: the cells of positions 2..6 are gone, the cell
\* that was at position 7 is now at position 2, the last one at position 6
C16_Witness ==
    \E t \in Callers :
        /\ call[t].op = "shift_context"
        /\ call[t].pc = "done"
        /\ call[t].args = <<12, 2>>
        /\ Len(kv) = 7
        /\ kv[2] = [pos |-> 1, tok |-> 2]
        /\ kv[3] = [pos |-> 2, tok |-> 8]
        /\ kv[7] = [pos |-> 6, tok |-> 12]

\* a lead byte followed by fewer continuation bytes than it declares
IncompleteUnit(s) ==
    /\ s # <<>>
    /\ DeclaredLen(s[1]) > Len(s)
    /\ \A h \in 2..Len(s) : s[h] \in 128..191

\* complete units followed by at most one incomplete trailing unit
ValidSoFar(s) ==
    \E k \in 0..Len(s) :
        /\ WellFormed(SubSeq(s, 1, k))
        /\ (k = Len(s) \/ IncompleteUnit(SubSeq(s, k + 1, Len(s))))

\* C17 as stated: after each push, drain delivers the longest prefix of the
\* buffer made of complete multi-byte units and keeps only the incomplete
\* trailing unit buffered (the bytes pushed being valid text so far, without
\* NUL): the buffer is empty or one incomplete unit.
C17_DrainsLongestCompletePrefix ==
    \A t \in Callers :
        LET r == call[t]
            pushed == Pieces(r.appended)
        IN  (r.op = "stream" /\ ValidSoFar(pushed) /\ ~HasNul(pushed)) =>
                /\ r.cached = <<>> \/ IncompleteUnit(r.cached)
                /\ Flatten(r.delivered) \o r.cached = pushed

\* what the code does: the whole buffer is delivered when it validates and
\* nothing is delivered otherwise, so the buffer is empty or does not validate
C17_WholeBufferOrNothing ==
    [][\A t \in Callers :
          LET r  == call[t]
              r2 == call'[t]
          IN  (r.op = "stream" /\ r2.op = "stream" /\ r2.appended # r.appended) =>
                  LET buf == r.cached \o Piece(Last(r2.appended))
                  IN  IF is_valid_utf8(buf)
                      THEN r2.delivered = Append(r.delivered, c_str(buf)) /\ r2.cached = <<>>
                      ELSE r2.delivered = r.delivered /\ r2.cached = buf
      ]_vars

\* the buffer 'A' followed by a lone 3-byte lead, nothing delivered
C17_CompleteUnitHeldBack ==
    \E t \in Callers :
        /\ call[t].op = "stream"
        /\ call[t].appended = <<14>>
        /\ call[t].cached = <<65, 226>>
        /\ call[t].delivered = <<>>
        /\ call[t].pc = "done"
        /\ call[t].state = "Completed"

\* s = p \o rest: what is left of s behind its prefix p
IsPrefix(p, s) == Len(p) <= Len(s) /\ SubSeq(s, 1, Len(p)) = p

Rest(p, s) == SubSeq(s, Len(p) + 1, Len(s))

\* nothing, stray continuation bytes, or one incomplete unit: no complete unit
Fragment(s) ==
    \/ \A h \in 1..Len(s) : s[h] \in 128..191
    \/ IncompleteUnit(s)

\* C18 as stated: for every byte sequence accumulated by synchronous
\* generation the text returned is structurally valid; an output that does
\* not validate is trimmed from its end until the remainder validates, at
\* most one incomplete trailing unit and no complete unit being removed; no
\* error is raised.
C18_ReturnedTextIsValid ==
    \A t \in Callers :
        LET r == call[t]
        IN  (r.op = "generate" /\ r.pc = "done" /\ r.sampled # <<>>) =>
                /\ r.ret.kind = "string"
                /\ WellFormed(r.ret.val)
                /\ IsPrefix(r.ret.val, r.result)
                /\ Fragment(Rest(r.ret.val, r.result))
                /\ WellFormed(r.result) => r.ret.val = r.result

\* what holds of C18 when the accumulated output is valid text up to an
\* incomplete trailing unit and holds no NUL byte
C18_TrailingUnitTrimmed ==
    \A t \in Callers :
        LET r == call[t]
        IN  (r.op = "generate" /\ r.pc = "done" /\ r.sampled # <<>>
               /\ ValidSoFar(r.result) /\ ~HasNul(r.result)) =>
                /\ r.ret.kind = "string"
                /\ WellFormed(r.ret.val)
                /\ IsPrefix(r.ret.val, r.result)
                /\ Fragment(Rest(r.ret.val, r.result))
                /\ WellFormed(r.result) => r.ret.val = r.result

\* a lead byte followed by an ASCII byte is returned as it is
C18_InvalidTextReturned ==
    \E t \in Callers :
        /\ call[t].op = "generate"
        /\ call[t].pc = "done"
        /\ call[t].sampled = <<11, 10>>
        /\ call[t].result = <<195, 65>>
        /\ call[t].ret = JString(<<195, 65>>)

\* C19 as stated: for any prompt length and any maxTokens every batch entry
\* submitted to the model has a position p with 0 <= p < capacity, and the
\* entry of each generated token has the position of the cursor at
\* submission time.
C19_PositionsWithinCapacity ==
    \A t \in Callers :
        LET r == call[t]
        IN  r.op \in GenOps =>
                \A g \in 1..Len(r.batches) :
                    LET b == r.batches[g]
                    IN  /\ \A e \in 1..Len(b.entries) :
                              0 <= b.entries[e].pos /\ b.entries[e].pos < g_context_size
                        /\ b.phase = "gen" => b.entries[1].pos = b.at

\* what holds of C19 for the requests with maxTokens >= 0: every position
\* stays below capacity - 4
C19_WithinCapacityForValidBudget ==
    \A t \in Callers :
        LET r == call[t]
        IN  (r.op \in GenOps /\ r.maxTokens >= 0) =>
                \A g \in 1..Len(r.batches) :
                    LET b == r.batches[g]
                    IN  /\ \A e \in 1..Len(b.entries) :
                              0 <= b.entries[e].pos /\ b.entries[e].pos < g_context_size - 4
                        /\ b.phase = "gen" => b.entries[1].pos = b.at

\* a prompt entry at position capacity
C19_EntryAtCapacity ==
    \E t \in Callers :
        /\ call[t].op \in GenOps
        /\ call[t].maxTokens < 0
        /\ Len(call[t].batches) = 1
        /\ Len(call[t].batches[1].entries) = 7
        /\ call[t].batches[1].entries[7].pos = g_context_size
        /\ call[t].batches[1].ok

\* C20: in a generation request with 0 <= maxTokens <= capacity - 4 no
\* eviction discards a position: a shift triggered during prompt submission
\* finds cursor = boundary = 0 and discards nothing; in the generation loop
\* the cursor at step i is at most capacity - maxTokens - 4 + i, below
\* capacity - 4, so no shift is triggered; the generated tokens are submitted
\* at the consecutive positions promptLength, promptLength + 1, ...
C20_NoPositionEverDiscarded ==
    \A t \in Callers :
        LET r   == call[t]
            n   == Len(r.tokens)
            gen == GenBatches(r)
        IN  (Started(r) /\ 0 <= r.maxTokens /\ r.maxTokens <= g_context_size - 4) =>
                /\ r.pc # "crashed"
                /\ r.discarded = 0
                /\ g_system_pos = 0
                /\ \A g \in 1..Len(r.batches) :
                      LET b == r.batches[g]
                      IN  /\ b.at = b.cursor
                          /\ b.phase = "prompt" => b.cursor = 0
                          /\ b.phase = "gen" => ~b.shifted
                /\ \A g \in 1..Len(gen) :
                      /\ gen[g].cursor <= g_context_size - r.maxTokens - 4 + (g - 1)
                      /\ gen[g].cursor < g_context_size - 4
                      /\ gen[g].entries[1].pos = n + (g - 1)
                /\ \A g \in 1..Len(kv) : kv[g].pos = g - 1

\* capacity 7, maxTokens 2: the prompt is cut to one token and the two
\* generated tokens go to the positions 1 and 2 = capacity - 5
C20_Witness ==
    \E t \in Callers :
        /\ call[t].op = "generate"
        /\ call[t].pc = "done"
        /\ call[t].state = "Completed"
        /\ g_context_size = 7
        /\ call[t].maxTokens = 2
        /\ Len(call[t].prompt) = 7
        /\ Len(call[t].tokens) = 1
        /\ Len(GenBatches(call[t])) = 2
        /\ GenBatches(call[t])[1].entries[1].pos = 1
        /\ GenBatches(call[t])[2].entries[1].pos = 2
        /\ call[t].discarded = 0
        /\ Len(kv) = 3

====
